---- MODULE Spec2Model ----
(***************************************************************************)
(* Signal engines and performance metrics of the Stock-Tracker repository  *)
(* (src/strategies.py): MomentumStrategy.calculate,                        *)
(* ValueStrategy.calculate, StrategyComparison.calculate_metrics and       *)
(* KeyMetricsCalculator.calculate_comprehensive_metrics.                   *)
(*                                                                         *)
(* A pandas column is a sequence of float values.  A float value is a pair *)
(* <<n, d>>: d > 0 is the exact rational n/d in lowest terms, <<0, 0>> is  *)
(* NaN, <<1, 0>> is +inf and <<-1, 0>> is -inf.  Arithmetic is exact, so   *)
(* the model follows the code's NaN / inf / zero cases and its formulas,   *)
(* not the rounding of binary floating point.                              *)
(***************************************************************************)
EXTENDS Integers, Sequences, FiniteSets, TLC

(***************************************************************************)
(* Bounds of the model.                                                    *)
(***************************************************************************)
MaxTail == 3
MaxLookback == 4
WarmLen == 13

Prices == {20, 25, 26, 50}
OpenPrices == {25, 50}
WarmPrices == {25}
Lookbacks == 1..MaxLookback

(***************************************************************************)
(* Float values.                                                           *)
(***************************************************************************)
NaN == <<0, 0>>
Inf == <<1, 0>>
NegInf == <<-1, 0>>

Abs(n) == IF n < 0 THEN -n ELSE n

RECURSIVE GCD(_, _)
GCD(a, b) == IF b = 0 THEN a ELSE GCD(b, a % b)

Norm(n, d) ==
    IF n = 0 THEN <<0, 1>>
    ELSE LET g == GCD(Abs(n), d) IN <<n \div g, d \div g>>

Num(n) == <<n, 1>>
Rat(n, d) == Norm(n, d)

isnan(x) == x = NaN
IsFinite(x) == x[2] > 0
SignOf(x) == IF x[1] > 0 THEN 1 ELSE IF x[1] < 0 THEN -1 ELSE 0

Neg(x) == <<-x[1], x[2]>>

Add(x, y) ==
    IF isnan(x) \/ isnan(y) THEN NaN
    ELSE IF IsFinite(x) /\ IsFinite(y)
        THEN LET g == GCD(x[2], y[2])
                 l == (x[2] \div g) * y[2]
             IN Norm(x[1] * (l \div x[2]) + y[1] * (l \div y[2]), l)
    ELSE IF IsFinite(x) THEN y
    ELSE IF IsFinite(y) THEN x
    ELSE IF x = y THEN x ELSE NaN

Sub(x, y) == Add(x, Neg(y))

Mul(x, y) ==
    IF isnan(x) \/ isnan(y) THEN NaN
    ELSE IF IsFinite(x) /\ IsFinite(y)
        THEN LET a == Norm(x[1], y[2])
                 b == Norm(y[1], x[2])
             IN Norm(a[1] * b[1], a[2] * b[2])
    ELSE IF SignOf(x) = 0 \/ SignOf(y) = 0 THEN NaN
    ELSE <<SignOf(x) * SignOf(y), 0>>

Div(x, y) ==
    IF isnan(x) \/ isnan(y) THEN NaN
    ELSE IF ~IsFinite(y) THEN (IF IsFinite(x) THEN Num(0) ELSE NaN)
    ELSE IF y[1] = 0
        THEN (IF SignOf(x) = 0 THEN NaN ELSE <<SignOf(x), 0>>)
    ELSE IF ~IsFinite(x) THEN <<SignOf(x) * SignOf(y), 0>>
    ELSE Mul(x, IF y[1] > 0 THEN <<y[2], y[1]>> ELSE <<-y[2], -y[1]>>)

\* x < y and x > y as numpy compares floats: False when either side is NaN.
LT(x, y) ==
    /\ ~isnan(x)
    /\ ~isnan(y)
    /\ x # y
    /\ IF IsFinite(x) /\ IsFinite(y) THEN SignOf(Sub(x, y)) < 0
       ELSE IF IsFinite(x) THEN y = Inf
       ELSE IF IsFinite(y) THEN x = NegInf
       ELSE x = NegInf

GT(x, y) == LT(y, x)

(***************************************************************************)
(* pandas Series operations used by the engines.                           *)
(***************************************************************************)
Idx(s) == 1..Len(s)

\* Mutant of pct_change: the undefined first change filled with 0.
pct_change_Filled(s) ==
    [t \in Idx(s) |-> IF t = 1 THEN Num(0) ELSE Sub(Div(s[t], s[t - 1]), Num(1))]

pct_change(s) ==
    [t \in Idx(s) |-> IF t = 1 THEN NaN ELSE Sub(Div(s[t], s[t - 1]), Num(1))]

diff(s) ==
    [t \in Idx(s) |-> IF t = 1 THEN NaN ELSE Sub(s[t], s[t - 1])]

shift(s) ==
    [t \in Idx(s) |-> IF t = 1 THEN NaN ELSE s[t - 1]]

fillna(s, v) ==
    [t \in Idx(s) |-> IF isnan(s[t]) THEN v ELSE s[t]]

replace(s, old, new) ==
    [t \in Idx(s) |-> IF s[t] = old THEN new ELSE s[t]]

RECURSIVE ffill(_)
ffill(s) ==
    IF Len(s) <= 1 THEN s
    ELSE LET p == ffill(SubSeq(s, 1, Len(s) - 1))
             x == s[Len(s)]
         IN Append(p, IF isnan(x) THEN p[Len(p)] ELSE x)

RECURSIVE SumRange(_, _, _)
SumRange(s, lo, hi) ==
    IF lo > hi THEN Num(0) ELSE Add(SumRange(s, lo, hi - 1), s[hi])

\* rolling(window).sum() with min_periods = window: NaN until the window is
\* full and NaN while the window holds a NaN.
rolling_sum(s, window) ==
    [t \in Idx(s) |->
        IF t < window THEN NaN ELSE SumRange(s, t - window + 1, t)]

\* rolling(window).mean(); an empty window (window = 0) has no mean.
rolling_mean(s, window) ==
    [t \in Idx(s) |->
        IF window = 0 \/ t < window THEN NaN
        ELSE Div(SumRange(s, t - window + 1, t), Num(window))]

RECURSIVE cumprod(_)
cumprod(s) ==
    IF Len(s) <= 1 THEN s
    ELSE LET p == cumprod(SubSeq(s, 1, Len(s) - 1))
         IN Append(p, Mul(p[Len(p)], s[Len(s)]))

\* expanding().max(): the running maximum.
RECURSIVE expanding_max(_)
expanding_max(s) ==
    IF Len(s) <= 1 THEN s
    ELSE LET p == expanding_max(SubSeq(s, 1, Len(s) - 1))
             x == s[Len(s)]
         IN Append(p, IF GT(x, p[Len(p)]) THEN x ELSE p[Len(p)])

\* Series.min(): the least non-NaN element, NaN for none.
RECURSIVE series_min(_)
series_min(s) ==
    IF Len(s) = 0 THEN NaN
    ELSE LET m == series_min(SubSeq(s, 1, Len(s) - 1))
             x == s[Len(s)]
         IN IF isnan(x) THEN m
            ELSE IF isnan(m) \/ LT(x, m) THEN x ELSE m

\* np.where(cond, a, b), element by element.
np_where(cond, a, b) ==
    [t \in DOMAIN cond |-> IF cond[t] THEN a[t] ELSE b[t]]

Const(s, v) == [t \in Idx(s) |-> v]

\* DataFrame.dropna() on the selected columns: the positions (dates) whose
\* row has no NaN, in order.
RECURSIVE KeptUpTo(_, _, _)
KeptUpTo(frame, cols, n) ==
    IF n = 0 THEN <<>>
    ELSE LET p == KeptUpTo(frame, cols, n - 1)
         IN IF \E c \in cols : isnan(frame[c][n]) THEN p ELSE Append(p, n)

dropna(frame, cols, n) ==
    LET kept == KeptUpTo(frame, cols, n)
    IN [i \in 1..Len(kept) |->
           [c \in cols |-> frame[c][kept[i]]] @@ [date |-> kept[i]]]

(***************************************************************************)
(* Frames.  A price frame has a row count and named columns; a result is   *)
(* what a call returned: the rows of a frame, or a raised exception.       *)
(***************************************************************************)
EmptyFrame == [raised |-> FALSE, columns |-> {}, rows |-> <<>>]
Raised == [raised |-> TRUE, columns |-> {}, rows |-> <<>>]

\* DataFrame.empty: no rows or no columns.
frame_empty(d) == d.n = 0 \/ DOMAIN d.cols = {}

ToFloat(s) == [t \in Idx(s) |-> Num(s[t])]

(***************************************************************************)
(* MomentumStrategy.calculate                                              *)
(***************************************************************************)
MomentumColumns ==
    {"signal", "strategy_return", "cumulative_return", "momentum_ratio",
     "rolling_return"}

\* Mutant of momentum_signal: the buy test joined with | instead of &.
momentum_signal_Or(rolling_return, momentum_ratio) ==
    np_where(
        [t \in Idx(rolling_return) |->
            GT(rolling_return[t], Num(0)) \/ GT(momentum_ratio[t], Rat(102, 100))],
        Const(rolling_return, Num(1)),
        np_where(
            [t \in Idx(rolling_return) |->
                LT(rolling_return[t], Num(0)) \/ LT(momentum_ratio[t], Rat(98, 100))],
            Const(rolling_return, Num(-1)),
            Const(rolling_return, Num(0))))

\* Mutant of momentum_signal: the sell test joined with & instead of |.
momentum_signal_SellAnd(rolling_return, momentum_ratio) ==
    np_where(
        [t \in Idx(rolling_return) |->
            GT(rolling_return[t], Num(0)) /\ GT(momentum_ratio[t], Rat(102, 100))],
        Const(rolling_return, Num(1)),
        np_where(
            [t \in Idx(rolling_return) |->
                LT(rolling_return[t], Num(0)) /\ LT(momentum_ratio[t], Rat(98, 100))],
            Const(rolling_return, Num(-1)),
            Const(rolling_return, Num(0))))

\* The nested np.where of the momentum engine.
momentum_signal(rolling_return, momentum_ratio) ==
    np_where(
        [t \in Idx(rolling_return) |->
            GT(rolling_return[t], Num(0)) /\ GT(momentum_ratio[t], Rat(102, 100))],
        Const(rolling_return, Num(1)),
        np_where(
            [t \in Idx(rolling_return) |->
                LT(rolling_return[t], Num(0)) \/ LT(momentum_ratio[t], Rat(98, 100))],
            Const(rolling_return, Num(-1)),
            Const(rolling_return, Num(0))))

\* Mutant of hold_signal: the ffill() step left out.
hold_signal_NoFill(signal) == fillna(replace(signal, Num(0), NaN), Num(0))

\* Mutant of hold_signal: ffill(limit=1), a signal carried one bar only.
hold_signal_FillOne(signal) ==
    LET marked == replace(signal, Num(0), NaN)
    IN fillna([t \in Idx(signal) |->
                  IF isnan(marked[t]) /\ t > 1 THEN marked[t - 1] ELSE marked[t]],
              Num(0))

\* signal.replace(0, nan).ffill().fillna(0)
hold_signal(signal) == fillna(ffill(replace(signal, Num(0), NaN)), Num(0))

\* Mutant of strategy_return_of: signal.shift(-1), tomorrow's signal.
strategy_return_of_Lookahead(signal, returns) ==
    [t \in Idx(signal) |->
        Mul(IF t = Len(signal) THEN NaN ELSE signal[t + 1], returns[t])]

\* Mutant of strategy_return_of: the signal applied without the shift.
strategy_return_of_NoLag(signal, returns) ==
    [t \in Idx(signal) |-> IF t = 1 THEN NaN ELSE Mul(signal[t], returns[t])]

\* signal.shift(1) * returns
strategy_return_of(signal, returns) ==
    LET lagged == shift(signal)
    IN [t \in Idx(signal) |-> Mul(lagged[t], returns[t])]

\* Mutant of cumulative_return_of: cumsum() in place of the compounding.
cumulative_return_of_Sum(strategy_return) ==
    [t \in Idx(strategy_return) |->
        SumRange(fillna(strategy_return, Num(0)), 1, t)]

\* (1 + strategy_return.fillna(0)).cumprod() - 1
cumulative_return_of(strategy_return) ==
    LET filled == fillna(strategy_return, Num(0))
        growth == [t \in Idx(strategy_return) |-> Add(Num(1), filled[t])]
        cum == cumprod(growth)
    IN [t \in Idx(strategy_return) |-> Sub(cum[t], Num(1))]

MomentumFrame(close, lookback_period) ==
    LET returns == pct_change(close)
        rolling_return == rolling_sum(returns, lookback_period)
        price_ma == rolling_mean(close, lookback_period)
        momentum_ratio == [t \in Idx(close) |-> Div(close[t], price_ma[t])]
        raw == momentum_signal(rolling_return, momentum_ratio)
        signal == hold_signal(raw)
        strategy_return == strategy_return_of(signal, returns)
    IN [returns |-> returns,
        rolling_return |-> rolling_return,
        price_ma |-> price_ma,
        momentum_ratio |-> momentum_ratio,
        raw_signal |-> raw,
        signal |-> signal,
        strategy_return |-> strategy_return,
        cumulative_return |-> cumulative_return_of(strategy_return)]

\* Mutant of MomentumCall: the length test of the guard left out.
MomentumCall_NoLengthGuard(d, lookback_period) ==
    IF frame_empty(d)
        THEN [df |-> <<>>, result |-> EmptyFrame]
    ELSE IF "Close" \notin DOMAIN d.cols
        THEN [df |-> <<>>, result |-> Raised]
    ELSE LET f == MomentumFrame(ToFloat(d.cols.Close), lookback_period)
         IN [df |-> f,
             result |-> [raised |-> FALSE,
                         columns |-> MomentumColumns,
                         rows |-> dropna(f, MomentumColumns, d.n)]]

\* What calculate leaves in its working copy df and what it returns.
MomentumCall(d, lookback_period) ==
    IF frame_empty(d) \/ d.n < lookback_period
        THEN [df |-> <<>>, result |-> EmptyFrame]
    ELSE IF "Close" \notin DOMAIN d.cols
        THEN [df |-> <<>>, result |-> Raised]
    ELSE LET f == MomentumFrame(ToFloat(d.cols.Close), lookback_period)
         IN [df |-> f,
             result |-> [raised |-> FALSE,
                         columns |-> MomentumColumns,
                         rows |-> dropna(f, MomentumColumns, d.n)]]

(***************************************************************************)
(* ValueStrategy.calculate.  The volatility and bollinger columns of the   *)
(* working copy are left out: nothing reads them and they are not among    *)
(* the returned columns.                                                   *)
(***************************************************************************)
RsiWindow == 14

ValueColumns ==
    {"signal", "strategy_return", "cumulative_return", "value_ratio", "rsi"}

\* rs = avg_gains / avg_losses; rsi = 100 - (100 / (1 + rs))
rsi_of(avg_gains, avg_losses) ==
    [t \in Idx(avg_gains) |->
        LET rs == Div(avg_gains[t], avg_losses[t])
        IN Sub(Num(100), Div(Num(100), Add(Num(1), rs)))]

\* Mutant of value_signal: the moving-average comparison left out of both
\* conditions.
value_signal_NoTrend(value_ratio, rsi, short_ma, long_ma) ==
    LET buy_condition ==
            [t \in Idx(rsi) |->
                LT(value_ratio[t], Rat(95, 100)) /\ LT(rsi[t], Num(30))]
        sell_condition ==
            [t \in Idx(rsi) |->
                GT(value_ratio[t], Rat(105, 100)) /\ GT(rsi[t], Num(70))]
    IN np_where(buy_condition, Const(rsi, Num(1)),
                np_where(sell_condition, Const(rsi, Num(-1)), Const(rsi, Num(0))))

\* The nested np.where of the value engine.
value_signal(value_ratio, rsi, short_ma, long_ma) ==
    LET buy_condition ==
            [t \in Idx(rsi) |->
                /\ LT(value_ratio[t], Rat(95, 100))
                /\ LT(rsi[t], Num(30))
                /\ LT(short_ma[t], long_ma[t])]
        sell_condition ==
            [t \in Idx(rsi) |->
                /\ GT(value_ratio[t], Rat(105, 100))
                /\ GT(rsi[t], Num(70))
                /\ GT(short_ma[t], long_ma[t])]
    IN np_where(buy_condition, Const(rsi, Num(1)),
                np_where(sell_condition, Const(rsi, Num(-1)), Const(rsi, Num(0))))

ValueFrame(close, lookback_period) ==
    LET returns == pct_change(close)
        long_ma == rolling_mean(close, lookback_period)
        short_ma == rolling_mean(close, lookback_period \div 4)
        value_ratio == [t \in Idx(close) |-> Div(close[t], long_ma[t])]
        price_changes == diff(close)
        gains == [t \in Idx(close) |->
                     IF GT(price_changes[t], Num(0)) THEN price_changes[t] ELSE Num(0)]
        losses == [t \in Idx(close) |->
                      Neg(IF LT(price_changes[t], Num(0)) THEN price_changes[t] ELSE Num(0))]
        avg_gains == rolling_mean(gains, RsiWindow)
        avg_losses == rolling_mean(losses, RsiWindow)
        rsi == rsi_of(avg_gains, avg_losses)
        raw == value_signal(value_ratio, rsi, short_ma, long_ma)
        signal == hold_signal(raw)
        strategy_return == strategy_return_of(signal, returns)
    IN [returns |-> returns,
        long_ma |-> long_ma,
        short_ma |-> short_ma,
        value_ratio |-> value_ratio,
        avg_gains |-> avg_gains,
        avg_losses |-> avg_losses,
        rsi |-> rsi,
        raw_signal |-> raw,
        signal |-> signal,
        strategy_return |-> strategy_return,
        cumulative_return |-> cumulative_return_of(strategy_return)]

ValueCall(d, lookback_period) ==
    IF frame_empty(d) \/ d.n < lookback_period
        THEN [df |-> <<>>, result |-> EmptyFrame]
    ELSE IF "Close" \notin DOMAIN d.cols
        THEN [df |-> <<>>, result |-> Raised]
    ELSE LET f == ValueFrame(ToFloat(d.cols.Close), lookback_period)
         IN [df |-> f,
             result |-> [raised |-> FALSE,
                         columns |-> ValueColumns,
                         rows |-> dropna(f, ValueColumns, d.n)]]

(***************************************************************************)
(* Statistics.  A standard deviation is a square root, so values built     *)
(* from one are kept as num * sqrt(root * scale), with num, root and scale *)
(* float values.                                                           *)
(***************************************************************************)
Surd(num, root, scale) == [num |-> num, root |-> root, scale |-> scale]

SurdZero == Surd(Num(0), Num(1), Num(1))

SurdIsNaN(v) ==
    \/ isnan(v.num)
    \/ isnan(v.root)
    \/ (v.num = Num(0) /\ ~IsFinite(v.root))
    \/ (~IsFinite(v.num) /\ v.root = Num(0))

SurdIsFinite(v) == IsFinite(v.num) /\ IsFinite(v.root)

SurdIsZero(v) == SurdIsFinite(v) /\ (v.num = Num(0) \/ v.root = Num(0))

\* v > 0 as Python compares: False for NaN.
SurdGT0(v) == ~SurdIsNaN(v) /\ GT(v.num, Num(0)) /\ GT(v.root, Num(0))

\* x / v for a float x
DivBySurd(x, v) == Surd(Div(x, v.num), Div(Num(1), v.root), Div(Num(1), v.scale))

\* v * np.sqrt(k)
MulSqrt(v, k) == Surd(v.num, v.root, Mul(v.scale, Num(k)))

Square(s) == [t \in Idx(s) |-> Mul(s[t], s[t])]

\* Series.mean(): NaN for no observation.
mean(s) == Div(SumRange(s, 1, Len(s)), Num(Len(s)))

\* Sample variance (ddof = 1): NaN for fewer than 2 observations.
variance(s) ==
    LET n == Len(s)
        total == SumRange(s, 1, n)
    IN IF n < 2 THEN NaN
       ELSE Div(Sub(Mul(Num(n), SumRange(Square(s), 1, n)), Mul(total, total)),
                Num(n * (n - 1)))

\* Series.std()
std(s) == Surd(Num(1), variance(s), Num(1))

AnnualDays == 252

(***************************************************************************)
(* StrategyComparison.calculate_metrics                                    *)
(***************************************************************************)
Column(rows, c) == [i \in 1..Len(rows) |-> rows[i][c]]

\* cumulative = (1 + returns).cumprod(); rolling_max = its expanding maximum;
\* drawdown = (cumulative - rolling_max) / rolling_max; max_drawdown = its min.
comparison_max_drawdown(returns) ==
    LET cumulative == cumprod([t \in Idx(returns) |-> Add(Num(1), returns[t])])
        rolling_max == expanding_max(cumulative)
        drawdown == [t \in Idx(returns) |->
                        Div(Sub(cumulative[t], rolling_max[t]), rolling_max[t])]
    IN series_min(drawdown)

comparison_sharpe(returns, volatility) ==
    IF SurdGT0(volatility)
        THEN DivBySurd(Mul(mean(returns), Num(AnnualDays)), volatility)
    ELSE SurdZero

\* Mutant of CalculateMetricsOf: the len(returns) == 0 test left out.
CalculateMetricsOf_NoLengthGuard(strategy_data) ==
    IF strategy_data.rows = <<>> \/ "strategy_return" \notin strategy_data.columns
        THEN <<>>
    ELSE LET returns == SelectSeq(Column(strategy_data.rows, "strategy_return"),
                                  LAMBDA x : ~isnan(x))
             volatility == MulSqrt(std(returns), AnnualDays)
         IN [total_return |->
                 IF "cumulative_return" \in strategy_data.columns
                     THEN strategy_data.rows[Len(strategy_data.rows)].cumulative_return
                 ELSE Num(0),
             volatility |-> volatility,
             sharpe_ratio |-> comparison_sharpe(returns, volatility),
             max_drawdown |-> comparison_max_drawdown(returns),
             win_rate |-> IF Len(returns) > 0
                              THEN Div(Num(Len(SelectSeq(returns, LAMBDA x : GT(x, Num(0))))),
                                       Num(Len(returns)))
                          ELSE Num(0),
             number_of_trades |-> Len(SelectSeq(returns, LAMBDA x : x # Num(0)))]

CalculateMetricsOf(strategy_data) ==
    IF strategy_data.rows = <<>> \/ "strategy_return" \notin strategy_data.columns
        THEN <<>>
    ELSE LET returns == SelectSeq(Column(strategy_data.rows, "strategy_return"),
                                  LAMBDA x : ~isnan(x))
             volatility == MulSqrt(std(returns), AnnualDays)
         IN IF Len(returns) = 0 THEN <<>>
            ELSE [total_return |->
                      IF "cumulative_return" \in strategy_data.columns
                          THEN strategy_data.rows[Len(strategy_data.rows)].cumulative_return
                      ELSE Num(0),
                  volatility |-> volatility,
                  sharpe_ratio |-> comparison_sharpe(returns, volatility),
                  max_drawdown |-> comparison_max_drawdown(returns),
                  win_rate |-> Div(Num(Len(SelectSeq(returns, LAMBDA x : GT(x, Num(0))))),
                                   Num(Len(returns))),
                  number_of_trades |-> Len(SelectSeq(returns, LAMBDA x : x # Num(0)))]

\* StrategyComparison.compare_strategies: pd.DataFrame({'Momentum': ...,
\* 'Value': ...}).T has one row per strategy and one column per key either
\* dict holds; a key missing from a dict is NaN in its row.
CompareStrategiesOf(momentum_data, value_data) ==
    LET momentum_metrics == CalculateMetricsOf(momentum_data)
        value_metrics == CalculateMetricsOf(value_data)
        columns == DOMAIN momentum_metrics \cup DOMAIN value_metrics
        Row(m) == [k \in columns |-> IF k \in DOMAIN m THEN m[k] ELSE NaN]
    IN [index |-> <<"Momentum", "Value">>,
        columns |-> columns,
        rows |-> <<Row(momentum_metrics), Row(value_metrics)>>]

(***************************************************************************)
(* KeyMetricsCalculator.calculate_comprehensive_metrics.  A dict is the    *)
(* sequence of its (key, item) pairs in insertion order.  A Python value   *)
(* is tagged with its type; a formatted string is the pair of its format   *)
(* and the value formatted.  The formula and calculation texts of a record *)
(* are display constants and are left out.                                 *)
(***************************************************************************)
Flt(x) == [kind |-> "float", v |-> x]
Srd(x) == [kind |-> "surd", v |-> x]
Str(x) == [kind |-> "str", v |-> x]
None == [kind |-> "None", v |-> "None"]
Fmt(f, x) == [kind |-> "formatted", v |-> <<f, x>>]

IsNumber(x) == x.kind = "float"

\* str(x) of a non-numeric value
str(x) == IF x.kind = "None" THEN Str("None") ELSE x

\* info.get(key, 'N/A')
info_get(info, key) == IF key \in DOMAIN info THEN info[key] ELSE Str("N/A")

\* The outcomes of the fundamentals lookup yf.Ticker(symbol).info: it
\* raises, or it returns a dict in which each field is absent, None or a
\* number.
InfoKeys == {"trailingPE", "priceToBook", "dividendYield"}

Infos ==
    {<<>>,
     [trailingPE |-> None, priceToBook |-> Flt(Rat(5, 2)),
      dividendYield |-> Flt(Rat(1, 50))]}

Lookups == {[raises |-> TRUE, info |-> <<>>]} \cup {[raises |-> FALSE, info |-> i] : i \in Infos}

\* Mutant of metrics_sharpe: the std_return > 0 test left out.
metrics_sharpe_NoGuard(returns) ==
    IF Len(returns) > 1
        THEN MulSqrt(DivBySurd(mean(returns), std(returns)), AnnualDays)
    ELSE SurdZero

metrics_sharpe(returns) ==
    IF Len(returns) > 1
        THEN IF SurdGT0(std(returns))
                 THEN MulSqrt(DivBySurd(mean(returns), std(returns)), AnnualDays)
             ELSE SurdZero
    ELSE SurdZero

\* Mutant of metrics_max_drawdown: the drop divided by the current value
\* instead of the running maximum.
metrics_max_drawdown_OverValue(returns) ==
    LET cumulative_values == cumprod([t \in Idx(returns) |-> Add(Num(1), returns[t])])
        rolling_max == expanding_max(cumulative_values)
        drawdown == [t \in Idx(returns) |->
                        Div(Sub(cumulative_values[t], rolling_max[t]),
                            cumulative_values[t])]
    IN series_min(drawdown)

metrics_max_drawdown(returns) ==
    LET cumulative_values == cumprod([t \in Idx(returns) |-> Add(Num(1), returns[t])])
        rolling_max == expanding_max(cumulative_values)
        drawdown == [t \in Idx(returns) |->
                        Div(Sub(cumulative_values[t], rolling_max[t]), rolling_max[t])]
    IN series_min(drawdown)

Fundamentals(lookup) ==
    IF lookup.raises
        THEN [pe_ratio |-> Str("N/A"), pb_ratio |-> Str("N/A"),
              dividend_yield |-> Str("N/A")]
    ELSE LET dy == info_get(lookup.info, "dividendYield")
         IN [pe_ratio |-> info_get(lookup.info, "trailingPE"),
             pb_ratio |-> info_get(lookup.info, "priceToBook"),
             dividend_yield |->
                 IF IsNumber(dy) THEN Flt(Mul(dy.v, Num(100))) ELSE dy]

Entry(key, value, raw_value) ==
    [key |-> key, item |-> [value |-> value, raw_value |-> raw_value]]

FundamentalEntry(key, f, x) ==
    Entry(key, IF IsNumber(x) THEN Fmt(f, x) ELSE str(x), x)

ErrorMarker == <<[key |-> "error", item |-> Str("Error calculating metrics")]>>

\* Mutant of PriceMetrics: the first bar's Close read in place of its Open.
PriceMetrics_FirstClose(d) ==
    IF "Open" \notin DOMAIN d.cols \/ "Close" \notin DOMAIN d.cols
        THEN [raises |-> TRUE]
    ELSE LET opening_price == Num(d.cols.Close[1])
             closing_price == Num(d.cols.Close[d.n])
             returns == SelectSeq(pct_change(ToFloat(d.cols.Close)),
                                  LAMBDA x : ~isnan(x))
         IN [raises |-> FALSE,
             avg_price |-> Div(Add(opening_price, closing_price), Num(2)),
             cumulative_return |-> Sub(Div(closing_price, opening_price), Num(1)),
             sharpe_ratio |-> metrics_sharpe(returns),
             max_drawdown |-> metrics_max_drawdown(returns)]

\* The price part of the try block: None when it raises (a column is
\* missing), else the four price-based values.
PriceMetrics(d) ==
    IF "Open" \notin DOMAIN d.cols \/ "Close" \notin DOMAIN d.cols
        THEN [raises |-> TRUE]
    ELSE LET opening_price == Num(d.cols.Open[1])
             closing_price == Num(d.cols.Close[d.n])
             returns == SelectSeq(pct_change(ToFloat(d.cols.Close)),
                                  LAMBDA x : ~isnan(x))
         IN [raises |-> FALSE,
             avg_price |-> Div(Add(opening_price, closing_price), Num(2)),
             cumulative_return |-> Sub(Div(closing_price, opening_price), Num(1)),
             sharpe_ratio |-> metrics_sharpe(returns),
             max_drawdown |-> metrics_max_drawdown(returns)]

\* Mutant of MetricsDict: the lookup outside an inner try, its exception
\* caught by the outer except.
MetricsDict_LookupUnguarded(d, p, lookup) ==
    IF frame_empty(d) THEN <<>>
    ELSE IF p.raises \/ lookup.raises THEN ErrorMarker
    ELSE LET f == Fundamentals(lookup)
         IN << Entry("Average Price", Fmt("$.2f", Flt(p.avg_price)), Flt(p.avg_price)),
               Entry("Cumulative Return", Fmt(".2%", Flt(p.cumulative_return)),
                     Flt(p.cumulative_return)),
               Entry("Sharpe Ratio", Fmt(".2f", Srd(p.sharpe_ratio)),
                     Srd(p.sharpe_ratio)),
               Entry("Max Drawdown", Fmt(".2%", Flt(p.max_drawdown)),
                     Flt(p.max_drawdown)),
               FundamentalEntry("P/E Ratio", ".2f", f.pe_ratio),
               FundamentalEntry("P/B Ratio", ".2f", f.pb_ratio),
               FundamentalEntry("Dividend Yield", ".2f%", f.dividend_yield) >>

\* The dict calculate_comprehensive_metrics returns, given the price part
\* and the outcome of the fundamentals lookup.
MetricsDict(d, p, lookup) ==
    IF frame_empty(d) THEN <<>>
    ELSE IF p.raises THEN ErrorMarker
    ELSE LET f == Fundamentals(lookup)
         IN << Entry("Average Price", Fmt("$.2f", Flt(p.avg_price)), Flt(p.avg_price)),
               Entry("Cumulative Return", Fmt(".2%", Flt(p.cumulative_return)),
                     Flt(p.cumulative_return)),
               Entry("Sharpe Ratio", Fmt(".2f", Srd(p.sharpe_ratio)),
                     Srd(p.sharpe_ratio)),
               Entry("Max Drawdown", Fmt(".2%", Flt(p.max_drawdown)),
                     Flt(p.max_drawdown)),
               FundamentalEntry("P/E Ratio", ".2f", f.pe_ratio),
               FundamentalEntry("P/B Ratio", ".2f", f.pb_ratio),
               FundamentalEntry("Dividend Yield", ".2f%", f.dividend_yield) >>

Keys(dict) == {dict[i].key : i \in 1..Len(dict)}

\* dict[key], for a key the dict holds
Item(dict, key) == dict[CHOOSE i \in 1..Len(dict) : dict[i].key = key].item

(***************************************************************************)
(* The price frames handed to the engines: every series of 1..MaxTail bars *)
(* over Prices, and every such series preceded by WarmLen identical bars   *)
(* (long enough for the 14-bar windows of the value engine to fill).  Each *)
(* bar opens at the previous close; the first open is free on the short    *)
(* series.  A frame without a Close column and the frame without rows are  *)
(* the malformed and the empty input.                                      *)
(***************************************************************************)
RECURSIVE SeqsUpTo(_, _)
SeqsUpTo(S, n) ==
    IF n = 0 THEN {<<>>}
    ELSE LET shorter == SeqsUpTo(S, n - 1)
         IN shorter \cup {Append(q, x) : q \in {r \in shorter : Len(r) = n - 1}, x \in S}

Tails == SeqsUpTo(Prices, MaxTail) \ {<<>>}
Warm(p) == [i \in 1..WarmLen |-> p]

OpenOf(close, first) ==
    [t \in Idx(close) |-> IF t = 1 THEN first ELSE close[t - 1]]

PriceFrame(close, first) ==
    [n |-> Len(close), cols |-> [Open |-> OpenOf(close, first), Close |-> close]]

NoCloseFrame(close, first) ==
    [n |-> Len(close), cols |-> [Open |-> OpenOf(close, first)]]

NoFrame == [n |-> 0, cols |-> <<>>]

Frames ==
    {PriceFrame(c, o) : c \in Tails, o \in OpenPrices}
    \cup {PriceFrame(Warm(p) \o c, p) : c \in Tails, p \in WarmPrices}
    \cup {NoCloseFrame(c, c[1]) : c \in {q \in Tails : Len(q) <= 2}}
    \cup {NoFrame}

Strategies ==
    [kind : {"momentum", "value"}, lookback_period : Lookbacks]

(***************************************************************************)
(* State.  A session is one call on the price frame; the rows an engine    *)
(* returned may then be handed to StrategyComparison.calculate_metrics.    *)
(***************************************************************************)
VARIABLES
    data,       \* the price frame under analysis
    strategy,   \* the engine object: its class and its lookback_period
    pc,         \* "ready", "returned" (a call returned) or "summarized"
    df,         \* the working copy of the engine's call
    result,     \* what the engine's call returned
    summary,    \* what calculate_metrics returned
    metrics,    \* what calculate_comprehensive_metrics returned
    ticker,     \* the outcome of the fundamentals lookup of that call
    comparison, \* what compare_strategies returned
    cache,      \* DataFetcher.cache: cache key -> the frame stored under it
    call,       \* the last get_stock_data call: its key, outcome and result
    served,     \* history: key -> the first non-empty frame returned for it
    app         \* what display_multi_stock_results was given and displayed

engineVars == <<data, strategy, pc, df, result, summary, metrics, ticker, comparison>>
fetcherVars == <<cache, call, served, app>>
vars == <<engineVars, fetcherVars>>

NotCalled == [raised |-> FALSE, columns |-> {}, rows |-> <<>>, called |-> FALSE]
Returned(r) == r @@ [called |-> TRUE]
NotComputed == <<[key |-> "not called", item |-> Str("")]>>
NoLookup == [raises |-> FALSE, info |-> <<>>, made |-> FALSE]
Looked(l) == l @@ [made |-> TRUE]
NotCompared == [index |-> <<>>, columns |-> {}, rows |-> <<>>]
EmptyCache == <<>>
NoCall == [made |-> FALSE]
NotRun == [ran |-> FALSE]

\* No DataFetcher call and no page run is part of the engine sessions.
FetcherIdle ==
    /\ cache = EmptyCache
    /\ call = NoCall
    /\ served = EmptyCache
    /\ app = NotRun

Init ==
    /\ data \in Frames
    /\ strategy \in Strategies
    /\ pc = "ready"
    /\ df = <<>>
    /\ result = NotCalled
    /\ summary = NotComputed
    /\ metrics = NotComputed
    /\ ticker = NoLookup
    /\ comparison = NotCompared
    /\ FetcherIdle

\* Mutant of MomentumCalculate: the columns written into data itself, the
\* data.copy() left out.
MomentumCalculate_NoCopy ==
    /\ pc = "ready"
    /\ strategy.kind = "momentum"
    /\ LET c == MomentumCall(data, strategy.lookback_period)
       IN /\ df' = c.df
          /\ result' = Returned(c.result)
          /\ data' = IF c.df = <<>> THEN data
                     ELSE [n |-> data.n, cols |-> c.df @@ data.cols]
    /\ pc' = "returned"
    /\ UNCHANGED <<strategy, summary, metrics, ticker, comparison, fetcherVars>>

MomentumCalculate ==
    /\ pc = "ready"
    /\ strategy.kind = "momentum"
    /\ LET c == MomentumCall(data, strategy.lookback_period)
       IN /\ df' = c.df
          /\ result' = Returned(c.result)
    /\ pc' = "returned"
    /\ UNCHANGED <<data, strategy, summary, metrics, ticker, comparison, fetcherVars>>

ValueCalculate ==
    /\ pc = "ready"
    /\ strategy.kind = "value"
    /\ LET c == ValueCall(data, strategy.lookback_period)
       IN /\ df' = c.df
          /\ result' = Returned(c.result)
    /\ pc' = "returned"
    /\ UNCHANGED <<data, strategy, summary, metrics, ticker, comparison, fetcherVars>>

\* StrategyComparison.calculate_metrics on the rows an engine returned.
CalculateMetrics ==
    /\ \/ pc = "returned" /\ result.called /\ ~result.raised
       \/ pc = "loaded"
    /\ summary' = CalculateMetricsOf(result)
    /\ pc' = "summarized"
    /\ UNCHANGED <<data, strategy, df, result, metrics, ticker, comparison, fetcherVars>>

\* The fundamentals lookup is reached only when the frame is not empty and
\* the price part did not raise.
CalculateComprehensiveMetrics ==
    /\ pc = "ready"
    /\ LET p == IF frame_empty(data) THEN [raises |-> FALSE] ELSE PriceMetrics(data)
       IN IF frame_empty(data) \/ p.raises
              THEN /\ metrics' = MetricsDict(data, p, NoLookup)
                   /\ ticker' = ticker
          ELSE \E l \in Lookups :
                   /\ metrics' = MetricsDict(data, p, l)
                   /\ ticker' = Looked(l)
    /\ pc' = "returned"
    /\ UNCHANGED <<data, strategy, df, result, summary, comparison, fetcherVars>>

Next ==
    \/ MomentumCalculate
    \/ ValueCalculate
    \/ CalculateMetrics
    \/ CalculateComprehensiveMetrics

Spec == Init /\ [][Next]_vars

(***************************************************************************)
(* Sessions of the comparator.  StrategyComparison takes any DataFrame, so *)
(* besides the rows an engine returned a caller may hand it a frame of its *)
(* own making: without rows, without the strategy_return column, with      *)
(* every strategy return missing, or without the cumulative_return column. *)
(* The price frames of these sessions are the series of at most 2 bars and *)
(* the series of MaxTail bars followed by WarmLen bars at one price, long  *)
(* enough for a 14-bar window to hold no price change after a bar was      *)
(* reported.                                                               *)
(***************************************************************************)
CallerFrames ==
    {EmptyFrame,
     [raised |-> FALSE, columns |-> {"signal"},
      rows |-> <<[date |-> 1, signal |-> Num(1)]>>],
     [raised |-> FALSE, columns |-> {"signal", "strategy_return"},
      rows |-> <<[date |-> 1, signal |-> Num(0), strategy_return |-> NaN],
                 [date |-> 2, signal |-> Num(1), strategy_return |-> NaN]>>],
     [raised |-> FALSE, columns |-> {"strategy_return"},
      rows |-> <<[date |-> 1, strategy_return |-> Rat(1, 25)],
                 [date |-> 2, strategy_return |-> Rat(-1, 20)]>>]}

Loaded(f) == f @@ [called |-> FALSE]

LongFrames ==
    {PriceFrame(c \o Warm(p), c[1]) :
         c \in {q \in Tails : Len(q) = MaxTail}, p \in WarmPrices}

ComparatorFrames ==
    {PriceFrame(c, c[1]) : c \in {q \in Tails : Len(q) <= 2}}
    \cup LongFrames
    \cup {NoFrame}

InitCompare ==
    /\ data \in ComparatorFrames
    /\ strategy \in Strategies
    /\ pc = "ready"
    /\ df = <<>>
    /\ result = NotCalled
    /\ summary = NotComputed
    /\ metrics = NotComputed
    /\ ticker = NoLookup
    /\ comparison = NotCompared
    /\ FetcherIdle

\* The caller takes a frame of its own for the comparator.
LoadStrategyData ==
    /\ pc = "ready"
    /\ \E f \in CallerFrames : result' = Loaded(f)
    /\ pc' = "loaded"
    /\ UNCHANGED <<data, strategy, df, summary, metrics, ticker, comparison, fetcherVars>>

\* StrategyComparison.compare_strategies on the rows the engine returned and
\* a frame of the caller for the other strategy.
CompareStrategies ==
    /\ pc = "returned"
    /\ result.called
    /\ ~result.raised
    /\ \E other \in CallerFrames :
           comparison' = IF strategy.kind = "momentum"
                             THEN CompareStrategiesOf(result, other)
                         ELSE CompareStrategiesOf(other, result)
    /\ pc' = "compared"
    /\ UNCHANGED <<data, strategy, df, result, summary, metrics, ticker, fetcherVars>>

NextCompare ==
    \/ MomentumCalculate
    \/ ValueCalculate
    \/ LoadStrategyData
    \/ CalculateMetrics
    \/ CompareStrategies

SpecCompare == InitCompare /\ [][NextCompare]_vars

(***************************************************************************)
(* Properties.                                                             *)
(***************************************************************************)
\* The engine's call has just returned a frame.  calculate_metrics changes
\* none of data, df and result, so the states after it hold the same frames.
EngineReturned == pc = "returned" /\ result.called /\ ~result.raised
Rows == result.rows
Close == data.cols.Close

\* r[t] = close[t] / close[t-1] - 1, straight from the price frame
DailyReturn(t) == Sub(Div(Num(Close[t]), Num(Close[t - 1])), Num(1))

\* C1: for a non-empty price series with fewer bars than the engine's
\* lookback, either engine returns an empty result: it does not raise and it
\* returns no row.
C1_ShortSeriesEmpty ==
    (result.called /\ data.n >= 1 /\ data.n < strategy.lookback_period)
        => (~result.raised /\ Rows = <<>>)

C1_Witness ==
    /\ result.called
    /\ strategy.kind = "value"
    /\ data.n >= 2
    /\ data.n < strategy.lookback_period

\* C2: forward-fill hold policy of both engines: a bar whose raw signal is
\* non-zero holds that raw signal; a bar whose raw signal is 0 holds the held
\* signal of the bar before it, which is 0 as long as no earlier bar had a
\* non-zero raw signal.
C2_ForwardFill ==
    (EngineReturned /\ df # <<>>) =>
        \A t \in 1..data.n :
            /\ df.raw_signal[t] # Num(0) => df.signal[t] = df.raw_signal[t]
            /\ df.raw_signal[t] = Num(0) =>
                   df.signal[t] = (IF t = 1 THEN Num(0) ELSE df.signal[t - 1])
            /\ (\A u \in 1..t : df.raw_signal[u] = Num(0)) => df.signal[t] = Num(0)

C2_Witness ==
    /\ EngineReturned
    /\ df # <<>>
    /\ strategy.kind = "value"
    /\ \E t \in 2..data.n :
           /\ df.raw_signal[t] = Num(0)
           /\ df.signal[t] = Num(1)
           /\ \E i \in 1..Len(Rows) : Rows[i].date = t

\* The call of the engine under analysis on a price frame.
EngineCall(d) ==
    IF strategy.kind = "momentum"
        THEN MomentumCall(d, strategy.lookback_period)
    ELSE ValueCall(d, strategy.lookback_period)

\* The price frame cut after bar t.
Truncate(d, t) ==
    [n |-> t, cols |-> [c \in DOMAIN d.cols |-> SubSeq(d.cols[c], 1, t)]]

\* The strategy_return reported for bar t; NaN when no row is reported for it.
ReturnAt(rows, t) ==
    IF \E i \in 1..Len(rows) : rows[i].date = t
        THEN rows[CHOOSE i \in 1..Len(rows) : rows[i].date = t].strategy_return
    ELSE NaN

\* C3: no lookahead, both engines: the strategy_return reported for bar t is
\* the one the engine reports for bar t on the series cut after bar t, so it
\* is a function of the bars up to t alone: two series that agree up to bar t
\* get the same strategy_return[t], whatever bar t+1 and the later bars are.
C3_NoLookahead ==
    EngineReturned =>
        \A t \in 1..data.n :
            ReturnAt(Rows, t) = ReturnAt(EngineCall(Truncate(data, t)).result.rows, t)

C3_Witness ==
    /\ EngineReturned
    /\ strategy.kind = "momentum"
    /\ \E i \in 1..(Len(Rows) - 1) :
           /\ Rows[i].strategy_return # Num(0)
           /\ Rows[i + 1].signal # Rows[i].signal
           /\ Close[Rows[i].date + 1] # Close[Rows[i].date]

\* C4: one-day lag, both engines: in every output row, for bar t,
\* strategy_return is the held signal of the previous input bar t-1 times the
\* daily simple return r[t] = close[t]/close[t-1] - 1.
C4_OneDayLag ==
    (EngineReturned /\ df # <<>>) =>
        \A i \in 1..Len(Rows) :
            LET t == Rows[i].date
            IN /\ t > 1
               /\ Rows[i].signal = df.signal[t]
               /\ Rows[i].strategy_return = Mul(df.signal[t - 1], DailyReturn(t))

C4_Witness ==
    /\ EngineReturned
    /\ df # <<>>
    /\ strategy.kind = "value"
    /\ \E i \in 1..Len(Rows) :
           LET t == Rows[i].date
           IN /\ df.signal[t - 1] = Num(1)
              /\ df.signal[t] = Num(-1)
              /\ DailyReturn(t) # Num(0)

\* The product of (1 + strategy_return) over the first i returned rows.
RECURSIVE RowGrowth(_, _)
RowGrowth(rows, i) ==
    IF i = 0 THEN Num(1)
    ELSE Mul(RowGrowth(rows, i - 1), Add(Num(1), rows[i].strategy_return))

Dates(rows) == {rows[i].date : i \in 1..Len(rows)}

\* C5: cumulative-return compounding, both engines: in every output row
\* cumulative_return is the product of (1 + strategy_return) over the output
\* rows up to it, minus 1; every input bar dropped from the output has a
\* strategy return that is missing or 0, a factor of exactly 1.
C5_Compounding ==
    (EngineReturned /\ df # <<>>) =>
        /\ \A i \in 1..Len(Rows) :
               Rows[i].cumulative_return = Sub(RowGrowth(Rows, i), Num(1))
        /\ \A t \in (1..data.n) \ Dates(Rows) :
               isnan(df.strategy_return[t]) \/ df.strategy_return[t] = Num(0)

C5_Witness ==
    /\ EngineReturned
    /\ strategy.kind = "momentum"
    /\ Len(Rows) < data.n
    /\ \E i \in 1..Len(Rows) : \E j \in 1..Len(Rows) :
           /\ i < j
           /\ Rows[i].strategy_return # Num(0)
           /\ Rows[j].strategy_return # Num(0)
           /\ Rows[j].signal # Rows[i].signal

\* C6: momentum raw signal: at every bar where the rolling return and the
\* momentum ratio are both defined, the raw signal is +1 exactly when rolling
\* return > 0 and momentum ratio > 1.02, -1 exactly when rolling return < 0 or
\* momentum ratio < 0.98, and 0 otherwise; the two conditions never hold
\* together.
C6_MomentumRawSignal ==
    (EngineReturned /\ df # <<>> /\ strategy.kind = "momentum") =>
        \A t \in 1..data.n :
            LET rr == df.rolling_return[t]
                mr == Div(Num(Close[t]), df.price_ma[t])
                buy == GT(rr, Num(0)) /\ GT(mr, Rat(102, 100))
                sell == LT(rr, Num(0)) \/ LT(mr, Rat(98, 100))
            IN (~isnan(rr) /\ ~isnan(mr)) =>
                   /\ (df.raw_signal[t] = Num(1)) <=> buy
                   /\ (df.raw_signal[t] = Num(-1)) <=> sell
                   /\ (df.raw_signal[t] = Num(0)) <=> (~buy /\ ~sell)
                   /\ ~(buy /\ sell)

C6_Witness ==
    /\ EngineReturned
    /\ df # <<>>
    /\ strategy.kind = "momentum"
    /\ \E t \in 1..data.n :
           /\ df.raw_signal[t] = Num(0)
           /\ GT(df.rolling_return[t], Num(0))
           /\ GT(df.momentum_ratio[t], Num(1))
    /\ \E t \in 1..data.n : ~isnan(df.rolling_return[t]) /\ df.raw_signal[t] = Num(1)
    /\ \E t \in 1..data.n : ~isnan(df.rolling_return[t]) /\ df.raw_signal[t] = Num(-1)

C8_RsiDefinedAtZeroLoss ==
    (EngineReturned /\ df # <<>> /\ strategy.kind = "value") =>
        \A t \in 2..data.n :
            df.avg_losses[t] = Num(0) =>
                /\ df.rsi[t] = Num(100)
                /\ (~isnan(df.long_ma[t]) => t \in Dates(Rows))

\* The part of C8 the code keeps: a zero average loss with a positive average
\* gain gives RSI 100.
C8_RsiAfterGainsOnly ==
    (EngineReturned /\ df # <<>> /\ strategy.kind = "value") =>
        \A t \in 2..data.n :
            (df.avg_losses[t] = Num(0) /\ GT(df.avg_gains[t], Num(0)))
                => df.rsi[t] = Num(100)

AllEqual(s) == \A i \in Idx(s) : s[i] = s[1]

\* The close-to-close returns of the price frame, the first (undefined) one
\* dropped.
PriceReturns == [t \in 1..(data.n - 1) |-> DailyReturn(t + 1)]

MetricsReturned ==
    pc = "returned" /\ metrics # NotComputed /\ "Sharpe Ratio" \in Keys(metrics)

Summarized == pc = "summarized" /\ summary # <<>>

\* C9: the Sharpe ratio is exactly 0, not NaN and not infinite, whenever the
\* returns have standard deviation 0 (they are all equal) or there are fewer
\* than 2 of them: in calculate_comprehensive_metrics on the price returns and
\* in StrategyComparison.calculate_metrics on the strategy returns.
C9_SharpeZero ==
    /\ (MetricsReturned /\ (Len(PriceReturns) < 2 \/ AllEqual(PriceReturns))) =>
           LET sharpe == Item(metrics, "Sharpe Ratio").raw_value.v
           IN SurdIsFinite(sharpe) /\ SurdIsZero(sharpe)
    /\ (Summarized /\ (Len(Rows) < 2 \/ AllEqual(Column(Rows, "strategy_return")))) =>
           /\ SurdIsFinite(summary.sharpe_ratio)
           /\ SurdIsZero(summary.sharpe_ratio)

C9_Witness ==
    /\ MetricsReturned
    /\ Len(PriceReturns) >= 2
    /\ AllEqual(PriceReturns)
    /\ variance(PriceReturns) = Num(0)
    /\ Item(metrics, "Sharpe Ratio").raw_value.v = SurdZero

\* C10: for a price series of at least 2 bars, all closes positive, the Max
\* Drawdown raw_value of calculate_comprehensive_metrics is <= 0 and >= -1.
C10_MaxDrawdownRange ==
    (MetricsReturned /\ data.n >= 2) =>
        LET mdd == Item(metrics, "Max Drawdown").raw_value.v
        IN /\ IsFinite(mdd)
           /\ ~GT(mdd, Num(0))
           /\ ~LT(mdd, Num(-1))

C10_Witness ==
    /\ MetricsReturned
    /\ data.n >= 3
    /\ LT(Item(metrics, "Max Drawdown").raw_value.v, Num(0))
    /\ Close[data.n] > Close[1]

\* C11: for the rows either engine returned from a series of positive closes,
\* with at least one strategy return present, the max_drawdown of
\* StrategyComparison.calculate_metrics is <= 0 and >= -1.
C11_ComparatorDrawdownRange ==
    Summarized =>
        /\ IsFinite(summary.max_drawdown)
        /\ ~GT(summary.max_drawdown, Num(0))
        /\ ~LT(summary.max_drawdown, Num(-1))

\* The part of C11 the code keeps: the max_drawdown is never above 0, and it
\* is within [-1, 0] as long as every strategy return is above -1 (no bar
\* loses the whole position or more).
C11_DrawdownRangeWithoutRuin ==
    Summarized =>
        /\ ~GT(summary.max_drawdown, Num(0))
        /\ (\A i \in 1..Len(Rows) : GT(Rows[i].strategy_return, Num(-1)))
               => (IsFinite(summary.max_drawdown) /\ ~LT(summary.max_drawdown, Num(-1)))

\* C12: for every non-empty price series, of any length, whose closes are all
\* identical, calculate_comprehensive_metrics yields Sharpe Ratio raw_value 0
\* and Max Drawdown raw_value 0.
C12_FlatSeriesZero ==
    (MetricsReturned /\ AllEqual(Close)) =>
        /\ SurdIsFinite(Item(metrics, "Sharpe Ratio").raw_value.v)
        /\ SurdIsZero(Item(metrics, "Sharpe Ratio").raw_value.v)
        /\ Item(metrics, "Max Drawdown").raw_value.v = Num(0)

\* The part of C12 the code keeps: a flat series of at least 2 bars.
C12_FlatSeriesZeroFromTwoBars ==
    (MetricsReturned /\ AllEqual(Close) /\ data.n >= 2) =>
        /\ SurdIsFinite(Item(metrics, "Sharpe Ratio").raw_value.v)
        /\ SurdIsZero(Item(metrics, "Sharpe Ratio").raw_value.v)
        /\ Item(metrics, "Max Drawdown").raw_value.v = Num(0)

\* C13: for every non-empty price series, Average Price raw_value is (open of
\* the first bar + close of the last bar) / 2 and Cumulative Return raw_value
\* is close of the last bar / open of the first bar - 1, whatever the bars in
\* between and the first bar's close are.
C13_AveragePriceAndCumulativeReturn ==
    MetricsReturned =>
        LET first_open == Num(data.cols.Open[1])
            last_close == Num(Close[data.n])
        IN /\ Item(metrics, "Average Price").raw_value.v
                  = Div(Add(first_open, last_close), Num(2))
           /\ Item(metrics, "Cumulative Return").raw_value.v
                  = Sub(Div(last_close, first_open), Num(1))

C13_Witness ==
    /\ MetricsReturned
    /\ data.n = 3
    /\ data.cols.Open[1] = 25
    /\ Close = <<26, 20, 50>>
    /\ Item(metrics, "Average Price").raw_value.v = Rat(75, 2)
    /\ Item(metrics, "Cumulative Return").raw_value.v = Num(1)

\* C14: calculate_comprehensive_metrics called with an empty price series
\* returns a result that carries an error marker record.
C14_EmptyGivesErrorMarker ==
    (pc = "returned" /\ metrics # NotComputed /\ frame_empty(data)) =>
        "error" \in Keys(metrics)

\* What the code does on the empty series: it returns the empty dict.
C14_EmptyGivesEmptyDict ==
    (pc = "returned" /\ metrics # NotComputed /\ frame_empty(data)) =>
        metrics = <<>>

MetricNames ==
    <<"Average Price", "Cumulative Return", "Sharpe Ratio", "Max Drawdown",
      "P/E Ratio", "P/B Ratio", "Dividend Yield">>

KeysInOrder(dict) == [i \in 1..Len(dict) |-> dict[i].key]

FundamentalNames == {"P/E Ratio", "P/B Ratio", "Dividend Yield"}

\* C15: when the fundamentals lookup raises for a non-empty, well-formed
\* price series, the result holds the seven records in the fixed order, its
\* four price-based records are those of a call whose lookup succeeds, the
\* three fundamentals have value and raw_value "N/A", and there is no error
\* marker.
C15_LookupFailureDegrades ==
    (pc = "returned" /\ ticker.made /\ ticker.raises) =>
        /\ KeysInOrder(metrics) = MetricNames
        /\ "error" \notin Keys(metrics)
        /\ \A l \in Lookups :
               ~l.raises =>
                   SubSeq(metrics, 1, 4)
                       = SubSeq(MetricsDict(data, PriceMetrics(data), l), 1, 4)
        /\ \A k \in FundamentalNames :
               /\ Item(metrics, k).value = Str("N/A")
               /\ Item(metrics, k).raw_value = Str("N/A")

C15_Witness ==
    /\ pc = "returned"
    /\ ticker.made
    /\ ticker.raises
    /\ data.n >= 3
    /\ Len(metrics) = 7
    /\ Item(metrics, "Cumulative Return").raw_value.v # Num(0)
    /\ LT(Item(metrics, "Max Drawdown").raw_value.v, Num(0))

\* The field of the lookup's dict behind each fundamentals record.
InfoKeyOf(k) ==
    IF k = "P/E Ratio" THEN "trailingPE"
    ELSE IF k = "P/B Ratio" THEN "priceToBook"
    ELSE "dividendYield"

\* C16: for each of trailingPE, priceToBook and dividendYield: when the field
\* is absent from the lookup's dict or present but not numeric, the record's
\* value and raw_value are both "N/A"; when it is numeric it is carried
\* through (dividend yield times 100); in every case the seven records are
\* produced.
C16_MissingOrNonNumericIsNA ==
    (pc = "returned" /\ ticker.made /\ ~ticker.raises) =>
        /\ KeysInOrder(metrics) = MetricNames
        /\ \A k \in FundamentalNames :
               LET f == InfoKeyOf(k)
               IN IF f \in DOMAIN ticker.info /\ IsNumber(ticker.info[f])
                      THEN Item(metrics, k).raw_value
                               = (IF f = "dividendYield"
                                      THEN Flt(Mul(ticker.info[f].v, Num(100)))
                                  ELSE ticker.info[f])
                  ELSE /\ Item(metrics, k).value = Str("N/A")
                       /\ Item(metrics, k).raw_value = Str("N/A")

\* The part of C16 the code keeps: an absent field gives "N/A", a numeric one
\* is carried through, and the seven records are always produced.
C16_AbsentOrNumeric ==
    (pc = "returned" /\ ticker.made /\ ~ticker.raises) =>
        /\ KeysInOrder(metrics) = MetricNames
        /\ \A k \in FundamentalNames :
               LET f == InfoKeyOf(k)
               IN /\ f \notin DOMAIN ticker.info =>
                         /\ Item(metrics, k).value = Str("N/A")
                         /\ Item(metrics, k).raw_value = Str("N/A")
                  /\ (f \in DOMAIN ticker.info /\ IsNumber(ticker.info[f])) =>
                         Item(metrics, k).raw_value
                             = (IF f = "dividendYield"
                                    THEN Flt(Mul(ticker.info[f].v, Num(100)))
                                ELSE ticker.info[f])

\* C17: given a non-empty series that lacks the Close column,
\* MomentumStrategy.calculate and ValueStrategy.calculate each return an
\* empty result, calculate_comprehensive_metrics returns the single error
\* marker, and none of the three raises.
C17_MalformedInputNeverRaises ==
    (data.n >= 1 /\ "Close" \notin DOMAIN data.cols) =>
        /\ result.called => (~result.raised /\ Rows = <<>>)
        /\ (pc = "returned" /\ metrics # NotComputed) => metrics = ErrorMarker

\* The part of C17 the code keeps: the metrics calculator returns the single
\* error marker, and an engine returns the empty result when the series is
\* also shorter than its lookback.
C17_MalformedInputWhereGuarded ==
    (data.n >= 1 /\ "Close" \notin DOMAIN data.cols) =>
        /\ (result.called /\ data.n < strategy.lookback_period)
               => (~result.raised /\ Rows = <<>>)
        /\ (result.called /\ data.n >= strategy.lookback_period) => result.raised
        /\ (pc = "returned" /\ metrics # NotComputed) => metrics = ErrorMarker

AllMissing(rows) == \A i \in 1..Len(rows) : isnan(rows[i].strategy_return)

\* C18: for a frame without rows, a frame without the strategy_return
\* column, or one whose strategy returns are all missing, calculate_metrics
\* returns the empty summary; compare_strategies returns the two rows
\* Momentum and Value, also when one or both of its inputs give the empty
\* summary.
C18_DegenerateInputEmptySummary ==
    /\ (pc = "summarized"
            /\ (\/ Rows = <<>>
                \/ "strategy_return" \notin result.columns
                \/ AllMissing(Rows)))
           => summary = <<>>
    /\ pc = "compared" =>
           /\ comparison.index = <<"Momentum", "Value">>
           /\ Len(comparison.rows) = 2
           /\ \A i \in 1..2 : DOMAIN comparison.rows[i] = comparison.columns

C18_Witness ==
    /\ pc = "compared"
    /\ strategy.kind = "momentum"
    /\ Rows # <<>>
    /\ comparison.columns # {}
    /\ isnan(comparison.rows[2].total_return)
    /\ ~isnan(comparison.rows[1].total_return)
    /\ comparison.rows[1].total_return # Num(0)

\* C19: for both engines the output dates are a contiguous run of the input
\* dates that ends at the last input bar, in input order, none missing in the
\* middle and none repeated.
C19_OneRowPerDate ==
    EngineReturned =>
        \A i \in 1..Len(Rows) : Rows[i].date = data.n - Len(Rows) + i

\* The part of C19 the code keeps: the output dates are in input order
\* without repeats, and those of the momentum engine are a contiguous run
\* ending at the last input bar.
C19_DatesInOrder ==
    EngineReturned =>
        /\ \A i \in 1..(Len(Rows) - 1) : Rows[i].date < Rows[i + 1].date
        /\ strategy.kind = "momentum" =>
               \A i \in 1..Len(Rows) : Rows[i].date = data.n - Len(Rows) + i

\* C26: in both engines the held signal is absorbing on non-zero: once it
\* has been +1 or -1 at a bar it is +1 or -1 at every later bar, never 0.
C26_HeldSignalAbsorbing ==
    (EngineReturned /\ df # <<>>) =>
        \A t \in 1..data.n :
            /\ df.signal[t] \in {Num(-1), Num(0), Num(1)}
            /\ (t > 1 /\ df.signal[t - 1] # Num(0)) => df.signal[t] # Num(0)

C26_Witness ==
    /\ EngineReturned
    /\ df # <<>>
    /\ \E t \in 1..(data.n - 2) :
           /\ df.raw_signal[t] # Num(0)
           /\ df.raw_signal[t + 1] = Num(0)
           /\ df.raw_signal[t + 2] = Num(0)
           /\ df.signal[t + 2] = df.raw_signal[t]

\* C27: momentum engine, n bars and lookback L with n >= L >= 1: the output
\* has exactly n - L rows, the bars after the first L (0-based positions
\* L..n-1); a series of exactly L bars yields no row.
C27_MomentumRowCount ==
    (EngineReturned /\ strategy.kind = "momentum"
         /\ data.n >= strategy.lookback_period) =>
        /\ Len(Rows) = data.n - strategy.lookback_period
        /\ Dates(Rows) = (strategy.lookback_period + 1)..data.n

C27_Witness ==
    /\ EngineReturned
    /\ strategy.kind = "momentum"
    /\ strategy.lookback_period = 2
    /\ data.n = 3
    /\ Len(Rows) = 1
    /\ Rows[1].date = 3

\* The series of exactly L bars: the guard lets it through and no row comes
\* back.
C27_ExactlyLookbackBars ==
    (EngineReturned /\ strategy.kind = "momentum"
         /\ data.n = strategy.lookback_period) =>
        (df # <<>> /\ Rows = <<>>)

\* C28: momentum engine, last warm-up bar (1-based bar L, 0-based L-1): the
\* held signal there is -1 if the momentum ratio is below 0.98 and 0
\* otherwise, every earlier bar holds 0, and the strategy_return of the first
\* output row (bar L+1) is 0 or the negated daily return of that bar.
C28_LastWarmupBar ==
    (EngineReturned /\ df # <<>> /\ strategy.kind = "momentum") =>
        LET L == strategy.lookback_period
            ratio == Div(Num(Close[L]), df.price_ma[L])
        IN /\ isnan(df.rolling_return[L])
           /\ ~isnan(ratio)
           /\ df.signal[L] = (IF LT(ratio, Rat(98, 100)) THEN Num(-1) ELSE Num(0))
           /\ \A t \in 1..(L - 1) : df.signal[t] = Num(0)
           /\ L \notin Dates(Rows)
           /\ Rows # <<>> =>
                  /\ Rows[1].date = L + 1
                  /\ Rows[1].strategy_return
                         = (IF df.signal[L] = Num(-1) THEN Neg(DailyReturn(L + 1))
                            ELSE Num(0))

C28_Witness ==
    /\ EngineReturned
    /\ df # <<>>
    /\ strategy.kind = "momentum"
    /\ strategy.lookback_period >= 2
    /\ df.signal[strategy.lookback_period] = Num(-1)
    /\ Rows # <<>>
    /\ Rows[1].strategy_return = Neg(DailyReturn(strategy.lookback_period + 1))
    /\ Rows[1].strategy_return # Num(0)

(***************************************************************************)
(* Sessions of the value engine on a crash followed by a rebound: one bar  *)
(* at 100, bars at 10 and three free bars, 15 bars in all, so that the     *)
(* crash and the free bars lie in one 14-bar RSI window; lookbacks 5..8,   *)
(* whose short moving average (lookback // 4 bars) is defined.             *)
(***************************************************************************)
TrendPrices == {10, 40, 100}
TrendLookbacks == 5..8

TrendFrames ==
    {PriceFrame(<<100>> \o [i \in 1..(RsiWindow - 3) |-> 10] \o c, 100) :
         c \in {q \in SeqsUpTo(TrendPrices, 3) : Len(q) = 3}}

InitTrend ==
    /\ data \in TrendFrames
    /\ strategy \in [kind : {"value"}, lookback_period : TrendLookbacks]
    /\ pc = "ready"
    /\ df = <<>>
    /\ result = NotCalled
    /\ summary = NotComputed
    /\ metrics = NotComputed
    /\ ticker = NoLookup
    /\ comparison = NotCompared
    /\ FetcherIdle

NextTrend == ValueCalculate

SpecTrend == InitTrend /\ [][NextTrend]_vars

\* C25: as the methodology page documents the value strategy: at every bar
\* where the price is below 95% of the long-term average and RSI < 30 the
\* engine's signal is BUY (+1), and at every bar where the price is above
\* 105% of the long-term average and RSI > 70 it is SELL (-1), with no
\* further condition.
C25_MethodologyValueSignal ==
    (EngineReturned /\ df # <<>> /\ strategy.kind = "value") =>
        \A t \in 1..data.n :
            LET price_to_average == Div(Num(Close[t]), df.long_ma[t])
            IN /\ (LT(price_to_average, Rat(95, 100)) /\ LT(df.rsi[t], Num(30)))
                      => df.signal[t] = Num(1)
               /\ (GT(price_to_average, Rat(105, 100)) /\ GT(df.rsi[t], Num(70)))
                      => df.signal[t] = Num(-1)

\* What the code does: the documented conditions give the signal only
\* together with the comparison of the short and the long moving average.
C25_SignalNeedsTrend ==
    (EngineReturned /\ df # <<>> /\ strategy.kind = "value") =>
        \A t \in 1..data.n :
            LET price_to_average == Div(Num(Close[t]), df.long_ma[t])
            IN /\ (LT(price_to_average, Rat(95, 100)) /\ LT(df.rsi[t], Num(30))
                       /\ LT(df.short_ma[t], df.long_ma[t]))
                      => df.signal[t] = Num(1)
               /\ (GT(price_to_average, Rat(105, 100)) /\ GT(df.rsi[t], Num(70))
                       /\ GT(df.short_ma[t], df.long_ma[t]))
                      => df.signal[t] = Num(-1)
               /\ df.raw_signal[t] = Num(1) => LT(df.short_ma[t], df.long_ma[t])
               /\ df.raw_signal[t] = Num(-1) => GT(df.short_ma[t], df.long_ma[t])

(***************************************************************************)
(* DataFetcher.  A frame of price data is its set of columns and its rows  *)
(* in index order; a row holds its date, its values and the set of columns *)
(* whose value is missing (NaN).  Dates are days of January 2024.          *)
(***************************************************************************)
RequiredColumns == {"Open", "High", "Low", "Close", "Volume"}

\* pd.DataFrame()
EmptyData == [columns |-> {}, rows |-> <<>>]

\* DataFrame.empty
data_empty(d) == d.rows = <<>> \/ d.columns = {}

Bar(date, open, close, volume, nan) ==
    [date |-> date, Open |-> open, High |-> IF open > close THEN open ELSE close,
     Low |-> IF open > close THEN close ELSE open, Close |-> close,
     Volume |-> volume, nan |-> nan]

\* str(date) of a day of January 2024
DayDigits == <<"1", "2", "3">>
date_str(d) == "2024-01-0" \o DayDigits[d]

\* Mutant of cache_key: the end date left out of the key.
cache_key_NoEnd(symbol, start_date, end_date) ==
    symbol \o "_" \o date_str(start_date)

\* f"{symbol}_{start_date}_{end_date}"
cache_key(symbol, start_date, end_date) ==
    symbol \o "_" \o date_str(start_date) \o "_" \o date_str(end_date)

is_monotonic_increasing(rows) ==
    \A i \in 1..(Len(rows) - 1) : rows[i].date <= rows[i + 1].date

\* DataFrame.sort_index(): a frame whose index is already non-decreasing is
\* returned as it is; otherwise the rows come in date order, rows of the
\* same date in an order the default sort (quicksort) does not fix.
sort_index(rows) ==
    IF is_monotonic_increasing(rows) THEN {rows}
    ELSE {s \in {[i \in 1..Len(rows) |-> rows[p[i]]] : p \in Permutations(1..Len(rows))} :
              is_monotonic_increasing(s)}

ValueError == [raised |-> TRUE, columns |-> {}, rows |-> <<>>]

\* DataFetcher._clean_data: the frames it may return, or the ValueError.
clean_data(raw) ==
    LET kept == SelectSeq(raw.rows, LAMBDA r : r.nan = {})
        missing_columns == RequiredColumns \ raw.columns
        positive == SelectSeq(kept, LAMBDA r : r.Close > 0 /\ r.Volume > 0)
    IN IF missing_columns # {} THEN {ValueError}
       ELSE {[raised |-> FALSE, columns |-> raw.columns, rows |-> s] :
                 s \in sort_index(positive)}

Outcome(returned, c, outcome) ==
    [returned |-> returned, cache |-> c, outcome |-> outcome]

\* DataFetcher.get_stock_data on the cache c, when ticker.history() delivers
\* `delivery` (or raises): what it returns, the cache it leaves, and the way
\* it took ("cached", "no data", "error" or "fetched").
get_stock_data(c, symbol, start_date, end_date, delivery) ==
    LET k == cache_key(symbol, start_date, end_date)
    IN IF k \in DOMAIN c THEN {Outcome(c[k], c, "cached")}
       ELSE IF delivery.raises THEN {Outcome(EmptyData, c, "error")}
       ELSE IF data_empty(delivery) THEN {Outcome(EmptyData, c, "no data")}
       ELSE {IF cleaned.raised THEN Outcome(EmptyData, c, "error")
             ELSE LET d == [columns |-> cleaned.columns, rows |-> cleaned.rows]
                  IN Outcome(d, (k :> d) @@ c, "fetched") :
                 cleaned \in clean_data(delivery)}

(***************************************************************************)
(* Sessions of one DataFetcher: calls of get_stock_data for three keys,    *)
(* two of one symbol.  The upstream source delivers up to two rows, in any *)
(* order and with repeated dates; a row is sound, or its close is zero or  *)
(* negative, or its volume is zero, or a value is missing.  It may also    *)
(* deliver a frame without the Volume column, or raise.                    *)
(***************************************************************************)
FetchKeys == {<<"A", 1, 2>>, <<"B", 1, 2>>, <<"A", 1, 3>>}

FetchBars ==
    {Bar(1, 5, 5, 100, {}), Bar(2, 5, 5, 100, {}), Bar(1, 5, 6, 100, {}),
     Bar(1, 5, 0, 100, {}), Bar(1, 5, -5, 100, {}), Bar(1, 5, 5, 0, {}),
     Bar(1, 5, 5, 100, {"Open"})}

Delivered(columns, rows) ==
    [raises |-> FALSE, columns |-> columns,
     rows |-> [i \in 1..Len(rows) |->
                  [c \in columns \cup {"date", "nan"} |-> rows[i][c]]]]

HistoryRaises == [raises |-> TRUE, columns |-> {}, rows |-> <<>>]

Deliveries ==
    {Delivered(RequiredColumns, rows) : rows \in SeqsUpTo(FetchBars, 2)}
    \cup {Delivered(RequiredColumns \ {"Volume"}, <<Bar(1, 5, 5, 100, {})>>)}
    \cup {HistoryRaises}

\* The engine session of a run that only fetches.
EngineIdle ==
    /\ data = NoFrame
    /\ strategy = [kind |-> "momentum", lookback_period |-> 1]
    /\ pc = "ready"
    /\ df = <<>>
    /\ result = NotCalled
    /\ summary = NotComputed
    /\ metrics = NotComputed
    /\ ticker = NoLookup
    /\ comparison = NotCompared

InitFetch ==
    /\ EngineIdle
    /\ cache = EmptyCache
    /\ call = NoCall
    /\ served = EmptyCache
    /\ app = NotRun

\* One call of get_stock_data.  `served` records, for the history, the
\* first non-empty frame each (symbol, start_date, end_date) was answered
\* with.
GetStockData ==
    /\ \E key \in FetchKeys, delivery \in Deliveries :
         \E o \in get_stock_data(cache, key[1], key[2], key[3], delivery) :
           /\ cache' = o.cache
           /\ call' = [made |-> TRUE, key |-> key, outcome |-> o.outcome,
                       returned |-> o.returned]
           /\ served' = IF ~data_empty(o.returned) /\ key \notin DOMAIN served
                            THEN (key :> o.returned) @@ served
                        ELSE served
    /\ UNCHANGED <<engineVars, app>>

NextFetch == GetStockData

SpecFetch == InitFetch /\ [][NextFetch]_vars

\* A call of get_stock_data returned a frame with rows.
FetchReturned == call.made /\ ~data_empty(call.returned)

\* C22: every non-empty series get_stock_data returns is deduplicated and
\* ordered: its dates are unique and strictly increasing, every bar has
\* close > 0 and volume > 0, and no bar has a missing OHLCV field.
C22_CleanedSeries ==
    FetchReturned =>
        LET rows == call.returned.rows
        IN /\ RequiredColumns \subseteq call.returned.columns
           /\ \A i \in 1..(Len(rows) - 1) : rows[i].date < rows[i + 1].date
           /\ \A i \in 1..Len(rows) :
                  /\ rows[i].Close > 0
                  /\ rows[i].Volume > 0
                  /\ rows[i].nan = {}

\* What the code guarantees: the same without the uniqueness of the dates
\* (the rows are in date order, repeated dates are kept).
C22_CleanedNotDeduplicated ==
    FetchReturned =>
        LET rows == call.returned.rows
        IN /\ RequiredColumns \subseteq call.returned.columns
           /\ \A i \in 1..(Len(rows) - 1) : rows[i].date <= rows[i + 1].date
           /\ \A i \in 1..Len(rows) :
                  /\ rows[i].Close > 0
                  /\ rows[i].Volume > 0
                  /\ rows[i].nan = {}

\* C23: once get_stock_data has returned a non-empty series for a
\* (symbol, start_date, end_date), every later call with that key is
\* answered from the cache with that same series, whatever calls happened
\* in between; and a non-empty answer from the cache is always the series
\* that very key was served before (two keys share no entry).
C23_StableCache ==
    [][call'.made =>
           LET k == call'.key
           IN /\ k \in DOMAIN served =>
                     /\ call'.outcome = "cached"
                     /\ call'.returned = served[k]
              /\ (call'.outcome = "cached" /\ ~data_empty(call'.returned)) =>
                     k \in DOMAIN served]_vars

\* A call answered from the cache while the cache holds different series
\* for the two date ranges of one symbol and a third entry.
C23_Witness ==
    /\ call.made
    /\ call.outcome = "cached"
    /\ call.key = <<"A", 1, 2>>
    /\ DOMAIN served = FetchKeys
    /\ call.returned = served[call.key]
    /\ served[<<"A", 1, 3>>] # served[<<"A", 1, 2>>]
    /\ \A k \in FetchKeys : cache[cache_key(k[1], k[2], k[3])] = served[k]

\* C29: a get_stock_data call that returns an empty series leaves the cache
\* unchanged, so that no cache key maps to an empty series.
C29_EmptyLeavesCacheUnchanged ==
    [][(call'.made /\ data_empty(call'.returned)) =>
           /\ cache' = cache
           /\ \A k \in DOMAIN cache' : ~data_empty(cache'[k])]_vars

\* What the code guarantees: the cache is left alone when the upstream
\* source delivers no rows and when the fetch or the cleaning raises.
C29_NoDataOrErrorLeavesCache ==
    [][(call'.made /\ call'.outcome \in {"no data", "error"}) =>
           /\ data_empty(call'.returned)
           /\ cache' = cache]_vars

(***************************************************************************)
(* The results page: display_multi_stock_results with a DataFetcher and    *)
(* engines of its own (app.py:294-296).  Its outcome is what it displayed: *)
(* the rows of the overview table, the traces of the strategy charts, the  *)
(* rows of the strategy summary, the message of an early return, and the   *)
(* exception that ended it, if any.  The key-metrics expanders and the     *)
(* price chart (app.py:376-450) use only frames that were fetched and      *)
(* display nothing the later sections read; they are left out.             *)
(***************************************************************************)
StartDate == 1
EndDate == 2
MaxChartSymbols == 4

\* The price frame of the engines from a fetched frame.
ToFrame(d) ==
    [n |-> Len(d.rows),
     cols |-> [Open |-> [i \in 1..Len(d.rows) |-> d.rows[i].Open],
               Close |-> [i \in 1..Len(d.rows) |-> d.rows[i].Close]]]

\* The one outcome of a get_stock_data call whose delivery needs no sorting.
TheOutcome(outcomes) == CHOOSE o \in outcomes : TRUE

\* app.py:340-345: the loop over the selected symbols, from symbol i on; the
\* dict stocks_data as the sequence of its items in insertion order.
RECURSIVE FetchStocks(_, _, _, _)
FetchStocks(selected_symbols, i, c, upstream) ==
    IF i > Len(selected_symbols) THEN [cache |-> c, stocks_data |-> <<>>]
    ELSE LET symbol == selected_symbols[i]
             o == TheOutcome(get_stock_data(c, symbol, StartDate, EndDate, upstream[symbol]))
             rest == FetchStocks(selected_symbols, i + 1, o.cache, upstream)
         IN [cache |-> rest.cache,
             stocks_data |->
                 (IF data_empty(o.returned) THEN <<>>
                  ELSE <<[symbol |-> symbol, data |-> o.returned]>>) \o rest.stocks_data]

\* DataFrame.empty of what an engine returned
result_empty(r) == r.rows = <<>>

\* app.py:360: "BUY" if not r.empty and r['signal'].iloc[-1] > 0 else "SELL"
signal_label(r) ==
    IF ~result_empty(r) /\ GT(r.rows[Len(r.rows)].signal, Num(0)) THEN "BUY" ELSE "SELL"

\* The symbols of a sequence of dict items
SymbolsOf(items) == {items[i].symbol : i \in 1..Len(items)}

\* stocks_momentum[symbol] and stocks_value[symbol]: a KeyError for a symbol
\* that is not a key, else one trace or summary row per non-empty result.
RECURSIVE StrategyRows(_, _, _)
StrategyRows(selected_symbols, i, results) ==
    IF i > Len(selected_symbols) THEN [raised |-> "", rows |-> <<>>]
    ELSE LET symbol == selected_symbols[i]
         IN IF symbol \notin DOMAIN results THEN [raised |-> "KeyError", rows |-> <<>>]
            ELSE LET rest == StrategyRows(selected_symbols, i + 1, results)
                     own == (IF result_empty(results[symbol].momentum) THEN <<>>
                             ELSE <<[asset |-> symbol, strategy |-> "Momentum"]>>)
                            \o (IF result_empty(results[symbol].value) THEN <<>>
                                ELSE <<[asset |-> symbol, strategy |-> "Value"]>>)
                 IN [raised |-> rest.raised, rows |-> own \o rest.rows]

Stopped(inputs, message) ==
    inputs @@ [ran |-> TRUE, message |-> message, raised |-> "", fetched |-> <<>>,
               results |-> <<>>, metrics_data |-> <<>>, charts |-> <<>>,
               summary_data |-> <<>>]

\* The sections after the fetches (app.py:351-517), on the results of the
\* engines: benchmark_results for the benchmark, results[symbol] for every
\* symbol of stocks_data.
Displayed(inputs, fetched, benchmark_results, results) ==
    LET table == [i \in 1..Len(fetched) |->
                     [asset |-> fetched[i],
                      momentum_signal |-> signal_label(results[fetched[i]].momentum),
                      value_signal |-> signal_label(results[fetched[i]].value)]]
                 \o <<[asset |-> "Benchmark",
                       momentum_signal |-> signal_label(benchmark_results.momentum),
                       value_signal |-> signal_label(benchmark_results.value)]>>
        shown == Len(inputs.selected_symbols) <= MaxChartSymbols
        traces == StrategyRows(inputs.selected_symbols, 1, results)
        benchmark_rows == (IF result_empty(benchmark_results.momentum) THEN <<>>
                           ELSE <<[asset |-> "Benchmark", strategy |-> "Momentum"]>>)
                          \o (IF result_empty(benchmark_results.value) THEN <<>>
                              ELSE <<[asset |-> "Benchmark", strategy |-> "Value"]>>)
    IN inputs @@
       [ran |-> TRUE, message |-> "", fetched |-> fetched,
        results |-> results @@ [Benchmark |-> benchmark_results],
        metrics_data |-> table,
        raised |-> traces.raised,
        charts |-> IF shown THEN traces.rows ELSE <<>>,
        summary_data |-> IF traces.raised = "" THEN benchmark_rows \o traces.rows
                         ELSE <<>>]

EngineResults(d, momentum_period, value_period) ==
    [momentum |-> MomentumCall(ToFrame(d), momentum_period).result,
     value |-> ValueCall(ToFrame(d), value_period).result]

\* display_multi_stock_results (app.py:313-517) when ticker.history()
\* delivers upstream[symbol] for each symbol.
display_multi_stock_results(selected_symbols, benchmark_symbol, momentum_period, value_period, upstream) ==
    LET inputs == [selected_symbols |-> selected_symbols,
                   momentum_period |-> momentum_period,
                   value_period |-> value_period]
        benchmark == TheOutcome(get_stock_data(EmptyCache, benchmark_symbol, StartDate,
                                               EndDate, upstream[benchmark_symbol]))
    IN IF selected_symbols = <<>> THEN Stopped(inputs, "No stocks selected for analysis")
       ELSE IF data_empty(benchmark.returned)
           THEN Stopped(inputs, "Failed to fetch benchmark data")
       ELSE LET stocks == FetchStocks(selected_symbols, 1, benchmark.cache, upstream)
                          .stocks_data
            IN IF stocks = <<>>
                   THEN Stopped(inputs, "Failed to fetch data for any selected stocks")
               ELSE Displayed(inputs,
                              [i \in 1..Len(stocks) |-> stocks[i].symbol],
                              EngineResults(benchmark.returned, momentum_period,
                                            value_period),
                              [symbol \in SymbolsOf(stocks) |->
                                  EngineResults(
                                      stocks[CHOOSE i \in 1..Len(stocks) :
                                                 stocks[i].symbol = symbol].data,
                                      momentum_period, value_period)])

(***************************************************************************)
(* Sessions of the page: one run for a selection of symbols.  The upstream *)
(* source delivers, for the benchmark and the first two symbols, a series  *)
(* of 1, 3 or WarmLen + 2 bars, a bar with close 0, nothing, or raises.    *)
(* The lookbacks are the sliders' (30..500 and 120..1000 days) scaled to   *)
(* these series: some series are shorter than a lookback, some longer.     *)
(***************************************************************************)
BenchmarkSymbol == "N"
Selections ==
    {<<"A">>, <<"A", "B">>, <<"B", "A">>, <<"A", "B", "C", "D", "E">>}

AppCloses ==
    {<<20>>, <<20, 20, 50>>, <<50, 20, 20>>,
     Warm(25) \o <<20, 20>>, Warm(25) \o <<50, 50>>}

Series(close) ==
    Delivered(RequiredColumns,
              [i \in 1..Len(close) |->
                  Bar(i, IF i = 1 THEN close[1] ELSE close[i - 1], close[i], 100, {})])

AppDeliveries ==
    {Series(c) : c \in AppCloses}
    \cup {Delivered(RequiredColumns, <<Bar(1, 5, 0, 100, {})>>),
          Delivered(RequiredColumns, <<>>),
          HistoryRaises}

Upstreams ==
    {u @@ [symbol \in {"C", "D", "E"} |-> Series(<<20, 20, 50>>)] :
         u \in [{BenchmarkSymbol, "A", "B"} -> AppDeliveries]}

MomentumPeriods == {2, 3}
ValuePeriods == {4, 5}

InitApp ==
    /\ EngineIdle
    /\ cache = EmptyCache
    /\ call = NoCall
    /\ served = EmptyCache
    /\ app = NotRun

\* One run of the page.
DisplayMultiStockResults ==
    /\ ~app.ran
    /\ \E selected_symbols \in Selections, upstream \in Upstreams,
          momentum_period \in MomentumPeriods, value_period \in ValuePeriods :
           app' = display_multi_stock_results(selected_symbols, BenchmarkSymbol,
                                              momentum_period, value_period, upstream)
    /\ UNCHANGED <<engineVars, cache, call, served>>

NextApp == DisplayMultiStockResults

SpecApp == InitApp /\ [][NextApp]_vars

\* The page ran through its fetches and reached the display sections.
PageDisplayed == app.ran /\ app.message = ""

\* The rows of the overview table that stand for the asset
TableRows(asset) ==
    {r \in {app.metrics_data[i] : i \in 1..Len(app.metrics_data)} : r.asset = asset}

\* C21: when an engine returned an empty result for an asset, the overview
\* table of display_multi_stock_results reports neither a BUY nor a SELL
\* signal for that asset and strategy.
C21_EmptyResultNoSignal ==
    PageDisplayed =>
        \A asset \in DOMAIN app.results : \A r \in TableRows(asset) :
            /\ result_empty(app.results[asset].momentum)
                   => r.momentum_signal \notin {"BUY", "SELL"}
            /\ result_empty(app.results[asset].value)
                   => r.value_signal \notin {"BUY", "SELL"}

\* What the code does: every asset that was fetched has one row, and an
\* empty result is reported as SELL, like a last signal of 0 or -1.
C21_EmptyResultShowsSell ==
    PageDisplayed =>
        \A asset \in DOMAIN app.results :
            /\ Cardinality(TableRows(asset)) = 1
            /\ \A r \in TableRows(asset) :
                   /\ result_empty(app.results[asset].momentum)
                          => r.momentum_signal = "SELL"
                   /\ result_empty(app.results[asset].value)
                          => r.value_signal = "SELL"
                   /\ r.momentum_signal = "BUY"
                          => ~result_empty(app.results[asset].momentum)
                   /\ r.value_signal = "BUY"
                          => ~result_empty(app.results[asset].value)

\* BUY is reported for a non-empty result of each strategy in some run.
C21_BuyReported ==
    /\ PageDisplayed
    /\ \E r \in TableRows("A") : r.momentum_signal = "BUY"
    /\ \E r \in TableRows("B") : r.value_signal = "BUY"

SelectedSymbols == {app.selected_symbols[i] : i \in 1..Len(app.selected_symbols)}
FetchedSymbols == {app.fetched[i] : i \in 1..Len(app.fetched)}

\* C30: when the benchmark and at least one selected symbol were fetched
\* and the fetch of another selected symbol returned an empty series, the
\* run completes: no lookup error in the strategy charts or the summary.
C30_PartialFailureCompletes ==
    (PageDisplayed /\ FetchedSymbols # {} /\ SelectedSymbols \ FetchedSymbols # {})
        => app.raised = ""

\* What the code does: the run ends in a KeyError exactly when a selected
\* symbol was not fetched; it completes, with the summary rows of every
\* non-empty result, when all were.
C30_KeyErrorIffPartialFailure ==
    PageDisplayed =>
        /\ app.raised = "KeyError" <=> SelectedSymbols \ FetchedSymbols # {}
        /\ app.raised \in {"", "KeyError"}
        /\ app.raised = "KeyError" => app.summary_data = <<>>
        /\ FetchedSymbols \subseteq SelectedSymbols

====
